---- MODULE Spec2Model ----
(***************************************************************************)
(* Model of the undervolt search of src/bin/gui.rs (GuiApp::update,        *)
(* run_benchmark, save_record).  One search run is the body of the         *)
(* "Start Undervolt Search" button handler; it is cut into the steps the   *)
(* code performs in order (loop head, candidate application, probe,        *)
(* record save, revert, final restoration) so that properties about the    *)
(* order of device writes can be stated.  The device, the benchmark and    *)
(* the file system are the environment: every call into them has its       *)
(* outcome chosen nondeterministically.                                    *)
(*                                                                         *)
(* Spec follows one invocation of the handler, from any idle state of the  *)
(* application (records left by an earlier run or none, the result file    *)
(* absent or present) to the return of update().  The handler clears       *)
(* records and re-reads every local before its first candidate, so a later *)
(* run is again a behaviour of Spec from the idle state the earlier run    *)
(* left behind.                                                            *)
(***************************************************************************)
EXTENDS Integers, Sequences, FiniteSets, TLC

VARIABLES
    nvml,                 \* GuiApp.nvml is Some
    supported,            \* GuiApp.supported: NoClocks or [graphics, memory]
    records,              \* GuiApp.records
    running,              \* GuiApp.running
    sink,                 \* ~/Documents/nvidia_oc_results.csv
    default_limit, default_freq_offset, default_mem_offset,
    base_graphics, base_memory, default_clock,
    freq_steps, mem_steps, clock_steps,
    limit, freq, mem, max_clock,
    iterations, i,
    pc,                   \* position of the handler inside the run
    log,                  \* history: calls issued to the device, the probe and the sink in this run
    sink0,                \* history: the sink as it was when the process started
    runs                  \* history: number of runs started

vars == << nvml, supported, records, running, sink,
           default_limit, default_freq_offset, default_mem_offset,
           base_graphics, base_memory, default_clock,
           freq_steps, mem_steps, clock_steps,
           limit, freq, mem, max_clock, iterations, i, pc, log, sink0, runs >>

app == << nvml, supported, sink0, runs >>
baseline == << default_limit, default_freq_offset, default_mem_offset,
              base_graphics, base_memory, default_clock >>
steps == << freq_steps, mem_steps, clock_steps, iterations >>
candidate == << limit, freq, mem, max_clock >>

-----------------------------------------------------------------------------
(* Bounds of the exploration *)

MaxTableLen == 2          \* longest supported-clock list per axis
MaxOldLines == 1          \* data lines already in the sink when the process starts
MaxRuns == 2              \* consecutive runs followed by SpecRuns

(* Program constants *)

step_power == 5000
min_clock == 0

(* Input domains *)

\* What the device may answer to the baseline reads; 0 is also what
\* unwrap_or(0) yields when a read fails.
PowerLimits == {0, 5000, 12000, 150000}
FreqOffsets == {100}
MemOffsets == {200}
GraphicsClocks == {0, 600, 900}
MemoryClocks == {0, 600}
MaxClocks == {600, 900}

Ladder(n) == [k \in 1..n |-> 300 * k]
ClockTables == { Ladder(n) : n \in 0..MaxTableLen }

NoClocks == [none |-> TRUE]
SupportedValues ==
    {NoClocks} \cup [graphics : ClockTables, memory : ClockTables]

BenchResults == { [score |-> 0, avg_power |-> 0],
                  [score |-> 1500, avg_power |-> 12375] }

-----------------------------------------------------------------------------
(* Pure helpers *)

Min2(a, b) == IF a <= b THEN a ELSE b

\* Variant: the table is walked in its own order.
Rev_Identity(s) == s

\* iter().rev()
Rev(s) == [k \in 1..Len(s) |-> s[Len(s) + 1 - k]]

IsPrefix(s, t) == Len(s) <= Len(t) /\ SubSeq(t, 1, Len(s)) = s

\* Variant: clocks above the base clock are kept.
StepsOf_NoFilter(tbl, base) ==
    [k \in 1..Len(tbl) |-> Rev(tbl)[k] - base]

\* s.graphics.iter().rev().filter(|c| c <= base).map(|c| c - base).collect()
StepsOf(tbl, base) ==
    LET kept == SelectSeq(Rev(tbl), LAMBDA c : c <= base)
    IN  [k \in 1..Len(kept) |-> kept[k] - base]

\* s.graphics.iter().rev().filter(|c| c <= default_clock).cloned().collect()
ClockStepsOf(tbl, dclock) == SelectSeq(Rev(tbl), LAMBDA c : c <= dclock)

FreqSteps(sup, base) ==
    IF sup = NoClocks THEN << >> ELSE StepsOf(sup.graphics, base)
MemSteps(sup, base) ==
    IF sup = NoClocks THEN << >> ELSE StepsOf(sup.memory, base)
ClockSteps(sup, dclock) ==
    IF sup = NoClocks THEN << >> ELSE ClockStepsOf(sup.graphics, dclock)

Iterations(fs, ms, cs) == Min2(Min2(Len(fs), Len(ms)), Len(cs))

-----------------------------------------------------------------------------
(* Record sink: save_record *)

\* Values of f32 fields are kept in thousandths; "{:.0}" and "{:.2}" round
\* the decimal expansion to the nearest, ties to even.
RoundHalfEven(x, d) ==
    LET q == x \div d
        r == x % d
    IN  IF 2 * r < d THEN q
        ELSE IF 2 * r > d THEN q + 1
        ELSE IF q % 2 = 0 THEN q ELSE q + 1

Header == [kind |-> "header"]

\* "{},{},{},{},{},{:.0},{:.2}"
Row(r) ==
    [kind |-> "row",
     power_limit_w |-> r.power_limit \div 1000,
     freq_offset |-> r.freq_offset,
     mem_offset |-> r.mem_offset,
     min_clock |-> r.min_clock,
     max_clock |-> r.max_clock,
     score |-> RoundHalfEven(r.score, 1000),
     avg_power_w |-> RoundHalfEven(r.avg_power, 10)]


\* A Record left in GuiApp.records by an earlier run.
StaleRecord ==
    [power_limit |-> 95000, freq_offset |-> 0, mem_offset |-> 0,
     min_clock |-> 0, max_clock |-> 900, score |-> 7000, avg_power |-> 99500]

NoFile == [exists |-> FALSE, lines |-> << >>]
InitSinks ==
    {NoFile} \cup
    { [exists |-> TRUE, lines |-> <<Header>> \o [k \in 1..n |-> Row(StaleRecord)]] :
        n \in 0..MaxOldLines }

\* Outcome of the file-system calls of one save_record: OpenOptions::open and
\* the two writeln! whose results are discarded.
SaveOutcomes == [open : BOOLEAN, header : BOOLEAN, row : BOOLEAN]

\* Variant: the file is opened for writing from its start instead of append.
SaveRecord_Truncates(snk, r, io) ==
    IF ~io.open THEN snk
    ELSE LET new_file == ~snk.exists
         IN  [exists |-> TRUE,
              lines |-> (IF new_file /\ io.header THEN <<Header>> ELSE << >>)
                        \o (IF io.row THEN <<Row(r)>> ELSE << >>)]

\* Variant: the header is written on every call.
SaveRecord_AlwaysHeader(snk, r, io) ==
    IF ~io.open THEN snk
    ELSE [exists |-> TRUE,
          lines |-> snk.lines
                    \o (IF io.header THEN <<Header>> ELSE << >>)
                    \o (IF io.row THEN <<Row(r)>> ELSE << >>)]

\* save_record(record)
SaveRecord(snk, r, io) ==
    IF ~io.open THEN snk
    ELSE LET new_file == ~snk.exists
         IN  [exists |-> TRUE,
              lines |-> snk.lines
                        \o (IF new_file /\ io.header THEN <<Header>> ELSE << >>)
                        \o (IF io.row THEN <<Row(r)>> ELSE << >>)]

-----------------------------------------------------------------------------
(* Calls issued to the environment, as logged in the history variable *)

Call(op, a, b, ok, site) == [op |-> op, a |-> a, b |-> b, ok |-> ok, site |-> site]

\* The four device writes of one configuration, in the order the code issues them.
WriteSet(pl, f, m, lo, hi, site, oks) ==
    << Call("power", pl, 0, oks[1], site),
       Call("gpc", f, 0, oks[2], site),
       Call("mem", m, 0, oks[3], site),
       Call("locked", lo, hi, oks[4], site) >>

Outcomes == [1..4 -> BOOLEAN]

\* Index of the first failing write, 5 if none fails.
FirstFail(oks) ==
    IF \A k \in 1..4 : oks[k] THEN 5
    ELSE CHOOSE k \in 1..4 : ~oks[k] /\ \A j \in 1..(k - 1) : oks[j]

\* a || b || c || d over the is_err() of the four writes: the writes after
\* the first failing one are not issued.
ApplyCalls(pl, f, m, lo, hi, oks) ==
    SubSeq(WriteSet(pl, f, m, lo, hi, "candidate", oks), 1, Min2(FirstFail(oks), 4))

-----------------------------------------------------------------------------
(* State machine *)

Init ==
    /\ nvml \in BOOLEAN
    /\ supported \in SupportedValues
    /\ records \in {<< >>, <<StaleRecord>>}
    /\ running = FALSE
    /\ sink \in InitSinks
    /\ default_limit = 0 /\ default_freq_offset = 0 /\ default_mem_offset = 0
    /\ base_graphics = 0 /\ base_memory = 0 /\ default_clock = 0
    /\ freq_steps = << >> /\ mem_steps = << >> /\ clock_steps = << >>
    /\ limit = 0 /\ freq = 0 /\ mem = 0 /\ max_clock = 0
    /\ iterations = 0 /\ i = 0
    /\ pc = "idle"
    /\ log = << >>
    /\ sink0 = sink
    /\ runs = 0

\* Variant: the Records of the earlier run are kept.
Cleared_Keeps(rs) == rs

\* Variant: the last Record of the earlier run is kept.
Cleared_KeepsLast(rs) == IF rs = << >> THEN << >> ELSE << rs[Len(rs)] >>

\* self.records.clear()
Cleared(rs) == << >>

\* Button clicked while not running, nvml present and device_by_index(0) Ok:
\* the baseline is read (from the given answers of the device) and the step
\* sequences are computed.
StartWith(limits, gclocks, mclocks, xclocks) ==
    /\ pc = "idle" /\ ~running /\ nvml
    /\ \E dl \in limits, df \in FreqOffsets, dm \in MemOffsets,
          bg \in gclocks, bm \in mclocks, dc \in xclocks :
         /\ default_limit' = dl
         /\ default_freq_offset' = df
         /\ default_mem_offset' = dm
         /\ base_graphics' = bg
         /\ base_memory' = bm
         /\ default_clock' = dc
         /\ freq_steps' = FreqSteps(supported, bg)
         /\ mem_steps' = MemSteps(supported, bm)
         /\ clock_steps' = ClockSteps(supported, dc)
         /\ limit' = dl /\ freq' = df /\ mem' = dm /\ max_clock' = dc
         /\ iterations' = Iterations(FreqSteps(supported, bg),
                                     MemSteps(supported, bm),
                                     ClockSteps(supported, dc))
    /\ running' = TRUE
    /\ records' = Cleared(records)
    /\ i' = 0
    /\ pc' = "loop"
    /\ log' = << >>
    /\ runs' = runs + 1
    /\ UNCHANGED << nvml, supported, sink0, sink >>

Start == StartWith(PowerLimits, GraphicsClocks, MemoryClocks, MaxClocks)

\* for i in 0..iterations { if limit < step_power { break; } ... }
LoopExit == i >= iterations \/ limit < step_power

\* Variant: the power limit is not decremented.
DecLimit_NoStep(l) == l

\* limit -= step_power
DecLimit(l) == l - step_power

\* Variant: only the power limit moves, the offsets and the locked clock stay.
NextCandidate_PowerOnly ==
    /\ pc = "loop" /\ ~LoopExit
    /\ limit' = DecLimit(limit)
    /\ pc' = "apply"
    /\ UNCHANGED << app, records, running, sink, baseline, steps, freq, mem,
                    max_clock, i, log >>

NextCandidate ==
    /\ pc = "loop" /\ ~LoopExit
    /\ limit' = DecLimit(limit)
    /\ freq' = default_freq_offset + freq_steps[i + 1]
    /\ mem' = default_mem_offset + mem_steps[i + 1]
    /\ max_clock' = clock_steps[i + 1]
    /\ pc' = "apply"
    /\ UNCHANGED << app, records, running, sink, baseline, steps, i, log >>

LeaveLoop ==
    /\ pc = "loop" /\ LoopExit
    /\ pc' = "restore"
    /\ UNCHANGED << app, records, running, sink, baseline, steps, candidate, i, log >>

\* Variant: a failed application is tried again.
AfterApply_Retry(oks) == IF FirstFail(oks) = 5 THEN "probe" ELSE "apply"

\* Variant: the probe is run although a write failed.
AfterApply_ProbesAnyway(oks) == "probe"

\* if a.is_err() || ... { break; }
AfterApply(oks) == IF FirstFail(oks) = 5 THEN "probe" ELSE "restore"

\* The four set_* calls of the candidate; break if one is_err().
Apply ==
    /\ pc = "apply"
    /\ \E oks \in Outcomes :
         /\ (\A k \in 1..4 : k > FirstFail(oks) => oks[k])
         /\ log' = log \o ApplyCalls(limit, freq, mem, min_clock, max_clock, oks)
         /\ pc' = AfterApply(oks)
    /\ UNCHANGED << app, records, running, sink, baseline, steps, candidate, i >>

\* Variant: the Record carries the baseline power limit instead of the tested one.
NewRecord_BaselineLimit(res) ==
    [power_limit |-> default_limit, freq_offset |-> freq, mem_offset |-> mem,
     min_clock |-> min_clock, max_clock |-> max_clock,
     score |-> res.score, avg_power |-> res.avg_power]

NewRecord(res) ==
    [power_limit |-> limit, freq_offset |-> freq, mem_offset |-> mem,
     min_clock |-> min_clock, max_clock |-> max_clock,
     score |-> res.score, avg_power |-> res.avg_power]

\* run_benchmark returned Some(res): the Record is pushed.
ProbeOk ==
    /\ pc = "probe"
    /\ \E res \in BenchResults :
         records' = Append(records, NewRecord(res))
    /\ log' = Append(log, Call("probe", 0, 0, TRUE, "candidate"))
    /\ pc' = "save"
    /\ UNCHANGED << app, running, sink, baseline, steps, candidate, i >>

\* Variant: the search goes on with the next decrement after an instability.
AfterUnstable_KeepsSearching == "loop"

\* else branch of `if let Some(res) = run_benchmark(..)`: revert and stop
AfterUnstable == "revert"

\* Variant: the unstable candidate is recorded before the revert.
ProbeUnstable_RecordsCandidate ==
    /\ pc = "probe"
    /\ records' = Append(records, NewRecord([score |-> 0, avg_power |-> 0]))
    /\ log' = Append(log, Call("probe", 0, 0, FALSE, "candidate"))
    /\ pc' = AfterUnstable
    /\ UNCHANGED << app, running, sink, baseline, steps, candidate, i >>

\* run_benchmark returned None.
ProbeUnstable ==
    /\ pc = "probe"
    /\ log' = Append(log, Call("probe", 0, 0, FALSE, "candidate"))
    /\ pc' = AfterUnstable
    /\ UNCHANGED << app, records, running, sink, baseline, steps, candidate, i >>

\* 1 if this save_record creates the file and loses its header line.
HeaderLost(snk, io) == IF io.open /\ ~snk.exists /\ ~io.header THEN 1 ELSE 0

\* save_record(self.records.last().unwrap()); then the next loop iteration.
Save ==
    /\ pc = "save"
    /\ \E io \in SaveOutcomes :
         /\ sink' = SaveRecord(sink, records[Len(records)], io)
         /\ log' = Append(log, Call("save", Len(records), HeaderLost(sink, io),
                                    io.open /\ io.row, "candidate"))
    /\ i' = i + 1
    /\ pc' = "loop"
    /\ UNCHANGED << app, records, running, baseline, steps, candidate >>

\* Variant: the power limit written back is the one last tried.
BaselineCalls_LastTriedLimit(site, oks) ==
    WriteSet(limit, default_freq_offset, default_mem_offset,
             min_clock, default_clock, site, oks)

\* Variant: the baseline writes stop at the first one that fails.
BaselineCalls_StopsAtFailure(site, oks) ==
    SubSeq(WriteSet(default_limit, default_freq_offset, default_mem_offset,
                    min_clock, default_clock, site, oks),
           1, Min2(FirstFail(oks), 4))

\* The four baseline writes; `let _ =` discards each result, so all four are issued.
BaselineCalls(site, oks) ==
    WriteSet(default_limit, default_freq_offset, default_mem_offset,
             min_clock, default_clock, site, oks)

\* Variant: the revert restores the power limit only.
Revert_PowerOnly ==
    /\ pc = "revert"
    /\ \E oks \in Outcomes :
         log' = log \o SubSeq(BaselineCalls("revert", oks), 1, 1)
    /\ pc' = "restore"
    /\ UNCHANGED << app, records, running, sink, baseline, steps, candidate, i >>

\* "revert and stop": four writes with ignored results, then break.
Revert ==
    /\ pc = "revert"
    /\ \E oks \in Outcomes :
         log' = log \o BaselineCalls("revert", oks)
    /\ pc' = "restore"
    /\ UNCHANGED << app, records, running, sink, baseline, steps, candidate, i >>

\* Variant: running is left set after the restoration.
Restore_KeepsRunning ==
    /\ pc = "restore"
    /\ \E oks \in Outcomes :
         log' = log \o BaselineCalls("restore", oks)
    /\ pc' = "returned"
    /\ UNCHANGED << app, records, running, sink, baseline, steps, candidate, i >>

\* Final restoration after the loop, results ignored; self.running = false.
Restore ==
    /\ pc = "restore"
    /\ \E oks \in Outcomes :
         log' = log \o BaselineCalls("restore", oks)
    /\ running' = FALSE
    /\ pc' = "returned"
    /\ UNCHANGED << app, records, sink, baseline, steps, candidate, i >>

Next ==
    \/ Start
    \/ NextCandidate
    \/ LeaveLoop
    \/ Apply
    \/ ProbeOk
    \/ ProbeUnstable
    \/ Save
    \/ Revert
    \/ Restore

Spec == Init /\ [][Next]_vars

\* Once started, the handler runs to its end: update() is ordinary sequential
\* code and every call it makes into the environment returns.  The click that
\* starts a run is the user's and is not forced.
RunStep ==
    NextCandidate \/ LeaveLoop \/ Apply \/ ProbeOk \/ ProbeUnstable
        \/ Save \/ Revert \/ Restore

FairSpec == Spec /\ WF_vars(RunStep)

(***************************************************************************)
(* Consecutive runs.  update() has returned; a later frame finds the       *)
(* application idle again, with records and the result file as the run     *)
(* left them, and the button can be clicked once more.  SpecRuns follows   *)
(* MaxRuns runs of one process over a reduced set of device answers.       *)
(***************************************************************************)
Frame ==
    /\ pc = "returned" /\ runs < MaxRuns
    /\ pc' = "idle"
    /\ UNCHANGED << app, records, running, sink, baseline, steps, candidate, i, log >>

RunsLimits == {5000, 150000}
RunsClocks == {600}

StartAgain == StartWith(RunsLimits, RunsClocks, RunsClocks, RunsClocks)

InitRuns ==
    /\ Init
    /\ nvml
    /\ supported \in {NoClocks, [graphics |-> Ladder(MaxTableLen),
                                   memory |-> Ladder(MaxTableLen)]}
    /\ sink = NoFile

NextRuns ==
    \/ StartAgain
    \/ NextCandidate
    \/ LeaveLoop
    \/ Apply
    \/ ProbeOk
    \/ ProbeUnstable
    \/ Save
    \/ Revert
    \/ Restore
    \/ Frame

SpecRuns == InitRuns /\ [][NextRuns]_vars

-----------------------------------------------------------------------------
(* Vocabulary of the properties, read off the history of calls *)

DeviceOps == {"power", "gpc", "mem", "locked"}

IsWrite(c) == c.op \in DeviceOps
IsCandidateWrite(c) == IsWrite(c) /\ c.site = "candidate"
IsProbe(c) == c.op = "probe"
IsUnstable(c) == c.op = "probe" /\ ~c.ok

\* What a call asks of the device, whatever the device answers.
Issued(c) == << c.op, c.a, c.b >>

BaselineIssued ==
    << <<"power", default_limit, 0>>,
       <<"gpc", default_freq_offset, 0>>,
       <<"mem", default_mem_offset, 0>>,
       <<"locked", 0, default_clock>> >>

\* The four calls log[k+1..k+4] ask for exactly the baseline configuration.
BaselineSetAt(k) ==
    /\ k >= 0 /\ k + 4 <= Len(log)
    /\ [j \in 1..4 |-> Issued(log[k + j])] = BaselineIssued

Count(P(_)) == Cardinality({k \in 1..Len(log) : P(log[k])})

\* Instability signals received in this run (the spec's crash_cycles).
crash_cycles == Count(IsUnstable)

InRun == pc \notin {"idle"}

-----------------------------------------------------------------------------
(* C1 -- Baseline restoration: once the run has ended, the last four calls   *)
(* issued are the write-set of the Baseline Configuration (power limit, core *)
(* offset, memory offset, locked clocks [0, baseline.max_clock]), issued by  *)
(* the final restoration, so no candidate write follows it.                  *)
C1_BaselineRestored ==
    pc = "returned" =>
        /\ BaselineSetAt(Len(log) - 4)
        /\ \A j \in (Len(log) - 3)..Len(log) : log[j].site = "restore"

\* A run whose very first candidate was signalled unstable has ended.
C1_Witness ==
    /\ pc = "returned"
    /\ Len(log) >= 5
    /\ IsUnstable(log[5])
    /\ log[1].a # default_limit

-----------------------------------------------------------------------------
(* C2 -- Termination: a started run eventually has issued the final          *)
(* restoration to baseline and returned, with running back to false.         *)
C2_Terminates ==
    running ~> (pc = "returned" /\ ~running /\ BaselineSetAt(Len(log) - 4))

\* A run with an applier that never failed and a probe that always returned a
\* result, over the longest step sequences, has returned.
C2_Witness ==
    /\ pc = "returned"
    /\ iterations = MaxTableLen
    /\ Len(records) = iterations
    /\ \A k \in 1..Len(log) : IsWrite(log[k]) \/ IsProbe(log[k]) => log[k].ok

-----------------------------------------------------------------------------
(* C3 (as stated) -- Crash budget: a run is aborted for instability exactly  *)
(* when the third instability signal has been received, not after the first  *)
(* or second.                                                                *)
C3_AbortOnThirdSignal ==
    pc = "revert" => crash_cycles = 3

(* C3 (amended) -- The run is aborted on the first instability signal: at    *)
(* most one signal is ever received in a run, and after it no candidate is   *)
(* applied or probed; the only device writes that follow are baseline        *)
(* write-sets (the revert, then the final restoration).                      *)
C3_AbortOnFirstSignal ==
    /\ crash_cycles <= 1
    /\ \A k \in 1..Len(log) :
         IsUnstable(log[k]) =>
            /\ \A j \in (k + 1)..Len(log) :
                 /\ IsWrite(log[j])
                 /\ log[j].site \in {"revert", "restore"}
            /\ Len(log) - k \in {0, 4, 8}
            /\ Len(log) - k >= 4 => BaselineSetAt(k)
            /\ Len(log) - k = 8 => BaselineSetAt(k + 4)

\* An instability signal after an accepted candidate, run over.
C3_Witness ==
    /\ pc = "returned"
    /\ crash_cycles = 1
    /\ Len(records) >= 1

-----------------------------------------------------------------------------
(* More vocabulary *)

CountIn(l, P(_)) == Cardinality({k \in 1..Len(l) : P(l[k])})

IsOkProbe(c) == c.op = "probe" /\ c.ok
IsSave(c) == c.op = "save"
IsFailedCandidateWrite(c) == IsCandidateWrite(c) /\ ~c.ok

Positions(P(_)) == SelectSeq([k \in 1..Len(log) |-> k], LAMBDA k : P(log[k]))

\* The five configuration fields of a Record.
ConfigOf(r) ==
    [power_limit |-> r.power_limit, freq_offset |-> r.freq_offset,
     mem_offset |-> r.mem_offset, min_clock |-> r.min_clock,
     max_clock |-> r.max_clock]

\* The four calls before position k are the successful writes of one candidate.
AppliedBefore(k) ==
    /\ k >= 5
    /\ [j \in 1..4 |-> log[k - 5 + j].op] = <<"power", "gpc", "mem", "locked">>
    /\ \A j \in (k - 4)..(k - 1) : IsCandidateWrite(log[j]) /\ log[j].ok

\* The configuration those four calls asked for.
ConfigBefore(k) ==
    [power_limit |-> log[k - 4].a, freq_offset |-> log[k - 3].a,
     mem_offset |-> log[k - 2].a, min_clock |-> log[k - 1].a,
     max_clock |-> log[k - 1].b]

-----------------------------------------------------------------------------
(* C4 -- Record integrity: during and after a run the Records are, in order, *)
(* the configurations of exactly those candidates whose four writes          *)
(* succeeded and whose probe then returned a result (none for an unstable or *)
(* unapplied candidate), and inside a run the sequence only grows at its     *)
(* end.                                                                      *)
C4_RecordsMatchProbes ==
    InRun =>
        LET okp == Positions(IsOkProbe)
        IN  /\ Len(records) = Len(okp)
            /\ \A j \in 1..Len(okp) :
                 /\ AppliedBefore(okp[j])
                 /\ ConfigOf(records[j]) = ConfigBefore(okp[j])

C4_RecordIntegrity ==
    /\ []C4_RecordsMatchProbes
    /\ [][InRun => IsPrefix(records, records')]_vars

\* One candidate accepted, the next one not applied, run over.
C4_Witness ==
    /\ pc = "returned"
    /\ Len(records) = 1
    /\ CountIn(log, IsFailedCandidateWrite) = 1

-----------------------------------------------------------------------------
(* C5 -- Monotonic descent: the j-th recorded power limit is the baseline    *)
(* power limit minus j * step_power, hence strictly below the one recorded   *)
(* before it (below the baseline for the first).                             *)
C5_MonotonicDescent ==
    InRun =>
        \A j \in 1..Len(records) :
            /\ records[j].power_limit = default_limit - j * step_power
            /\ records[j].power_limit <
                 (IF j = 1 THEN default_limit ELSE records[j - 1].power_limit)

C5_Witness ==
    /\ Len(records) >= 2
    /\ InRun

-----------------------------------------------------------------------------
(* The end-to-end scenario of C6 and C7: baseline power limit 150000 mW and  *)
(* empty frequency and memory step sequences, run over.                      *)
ScenarioDone ==
    /\ pc = "returned"
    /\ default_limit = 150000
    /\ freq_steps = << >>
    /\ mem_steps = << >>

(* C6 (as stated) -- the scenario yields floor(150000 / 5000) Records with   *)
(* power limits 145000, 140000, ...                                          *)
C6_ThirtyRecords ==
    ScenarioDone =>
        /\ Len(records) = 150000 \div step_power
        /\ \A j \in 1..Len(records) :
             records[j].power_limit = 150000 - j * step_power

(* C6 (amended) -- in the scenario the loop runs min(0, 0, ..) = 0 times:    *)
(* no Record, no candidate of any axis and no probe; the only device calls   *)
(* are the four of the final restoration, which writes power limit 150000.   *)
C6_NoStepsNoCandidates ==
    ScenarioDone =>
        /\ records = << >>
        /\ Len(log) = 4
        /\ BaselineSetAt(0)
        /\ \A k \in 1..4 : log[k].site = "restore"
        /\ Issued(log[1]) = <<"power", 150000, 0>>

C6_Witness ==
    /\ ScenarioDone
    /\ supported = NoClocks
    /\ Len(log) = 4

-----------------------------------------------------------------------------
(* C7 (as stated) -- in the scenario the run counts exactly one crash and    *)
(* yields no Record.                                                         *)
C7_OneCrashWithoutSteps ==
    ScenarioDone =>
        /\ records = << >>
        /\ crash_cycles = 1

(* C7 (amended) -- baseline power limit 150000, run over.  With empty step   *)
(* sequences no candidate exists, so the probe is never called: no Record    *)
(* and no crash.  With a first candidate (power limit 145000) that the probe *)
(* signals unstable: no Record, exactly one instability signal, no further   *)
(* candidate, and the calls after the signal are the revert and the final    *)
(* restoration to baseline.                                                  *)
C7_FirstCandidateUnstable ==
    (pc = "returned" /\ default_limit = 150000) =>
        /\ (freq_steps = << >> /\ mem_steps = << >>) =>
              /\ records = << >>
              /\ crash_cycles = 0
              /\ CountIn(log, IsProbe) = 0
              /\ CountIn(log, IsCandidateWrite) = 0
        /\ (Len(log) >= 5 /\ IsUnstable(log[5])) =>
              /\ records = << >>
              /\ crash_cycles = 1
              /\ Issued(log[1]) = <<"power", 145000, 0>>
              /\ CountIn(log, IsCandidateWrite) = 4
              /\ Len(log) = 13
              /\ BaselineSetAt(5) /\ BaselineSetAt(9)
              /\ \A k \in 10..13 : log[k].site = "restore"

C7_Witness ==
    /\ pc = "returned"
    /\ default_limit = 150000
    /\ Len(log) >= 5
    /\ IsUnstable(log[5])

-----------------------------------------------------------------------------
(* C8 -- No retry: the candidates applied in one run are pairwise different  *)
(* (no attempt issues the writes of another one again), and after a failed   *)
(* candidate write or an instability signal nothing more is applied or       *)
(* probed.                                                                   *)
IsCandidateStart(c) == c.op = "power" /\ c.site = "candidate"

\* The candidate writes issued from position k on, up to the end of that attempt.
AttemptLen(k) ==
    Cardinality({d \in 0..3 :
        \A e \in 0..d : /\ k + e <= Len(log)
                        /\ IsCandidateWrite(log[k + e])
                        /\ (e > 0 => ~IsCandidateStart(log[k + e]))})

Attempt(k) == [d \in 1..AttemptLen(k) |-> Issued(log[k + d - 1])]

\* Two attempts issue the same writes as far as both got.
SameCandidate(s, t) == \A d \in 1..Min2(Len(s), Len(t)) : s[d] = t[d]

C8_NoRetry ==
    LET starts == Positions(IsCandidateStart)
    IN  /\ \A x, y \in 1..Len(starts) :
             x < y => ~SameCandidate(Attempt(starts[x]), Attempt(starts[y]))
        /\ \A k \in 1..Len(log) :
             (IsFailedCandidateWrite(log[k]) \/ IsUnstable(log[k])) =>
                 \A j \in (k + 1)..Len(log) : log[j].site # "candidate"

\* Two candidates applied, the second one unstable.
C8_Witness ==
    /\ pc = "returned"
    /\ CountIn(log, IsCandidateStart) = 2
    /\ crash_cycles = 1

-----------------------------------------------------------------------------
(* C9 -- Apply failure: from the step in which a sub-write of a candidate    *)
(* fails, the handler goes to the final restoration without calling the      *)
(* probe; no Record is appended, no instability is counted, and the Records  *)
(* accepted before stay as they are.                                         *)
ApplyFailed(l) == CountIn(l, IsFailedCandidateWrite) > 0

C9_ApplyFailureStops ==
    [][ApplyFailed(log') =>
          /\ pc' \in {"restore", "returned"}
          /\ records' = records
          /\ CountIn(log', IsProbe) = CountIn(log, IsProbe)
          /\ CountIn(log', IsUnstable) = CountIn(log, IsUnstable)
          /\ CountIn(log', IsCandidateWrite) <=
                CountIn(log, IsCandidateWrite) + 4]_vars

\* The memory-offset write of a second candidate failed, run over.
C9_Witness ==
    /\ pc = "returned"
    /\ Len(records) = 1
    /\ \E k \in 1..Len(log) : IsFailedCandidateWrite(log[k]) /\ log[k].op = "mem"

-----------------------------------------------------------------------------
(* Lines the run has added to the sink, and the data lines among them *)
RunLines == SubSeq(sink.lines, Len(sink0.lines) + 1, Len(sink.lines))
RunRows == SelectSeq(RunLines, LAMBDA ln : ln.kind = "row")

RowsOf(rs) == [j \in 1..Len(rs) |-> Row(rs[j])]

\* The Records whose save_record call put their line into the sink.
SavedRecords ==
    LET sv == Positions(IsSave)
        kept == SelectSeq([j \in 1..Len(sv) |-> j], LAMBDA j : log[sv[j]].ok)
    IN  [x \in 1..Len(kept) |-> records[log[sv[kept[x]]].a]]

BetweenRecords == pc \in {"loop", "apply", "probe", "revert", "restore", "returned"}

-----------------------------------------------------------------------------
\* Every save_record call of the run opened the file and wrote its lines.
AllSavesClean ==
    \A k \in 1..Len(log) : IsSave(log[k]) => log[k].ok /\ log[k].b = 0

-----------------------------------------------------------------------------
(* C12 -- Restoration is best-effort: whatever the four restoration writes   *)
(* answer, the step that performs them issues all four baseline writes,      *)
(* leaves the Records as they are and returns with running false.            *)
C12_RestorationBestEffort ==
    [][pc = "restore" =>
          /\ pc' = "returned"
          /\ ~running'
          /\ records' = records
          /\ Len(log') = Len(log) + 4
          /\ [j \in 1..4 |-> Issued(log'[Len(log) + j])] = BaselineIssued]_vars

\* The run returned with a Record although the first and the last
\* restoration write failed.
C12_Witness ==
    /\ pc = "returned"
    /\ Len(records) >= 1
    /\ Len(log) >= 4
    /\ ~log[Len(log) - 3].ok
    /\ log[Len(log) - 2].ok
    /\ ~log[Len(log)].ok

-----------------------------------------------------------------------------
(* C13 -- Candidate step sequence: for the core and the memory axis the step *)
(* sequence consists of c - b for exactly the supported clocks c <= b, in    *)
(* descending order of c; so every step is <= 0, the sequence is             *)
(* non-increasing, clocks above b give no step, and it does not change       *)
(* during the run.                                                           *)
GraphicsTable == IF supported = NoClocks THEN << >> ELSE supported.graphics
MemoryTable == IF supported = NoClocks THEN << >> ELSE supported.memory

Ascending(tbl) == \A k \in 1..(Len(tbl) - 1) : tbl[k] < tbl[k + 1]

IsStepSequence(st, tbl, b) ==
    /\ \A k \in 1..Len(st) : st[k] <= 0
    /\ \A k \in 1..(Len(st) - 1) : st[k] >= st[k + 1]
    /\ {st[k] + b : k \in 1..Len(st)} = {tbl[j] : j \in {x \in 1..Len(tbl) : tbl[x] <= b}}
    /\ Len(st) = Cardinality({j \in 1..Len(tbl) : tbl[j] <= b})

C13_StepsAsTable ==
    (InRun /\ Ascending(GraphicsTable) /\ Ascending(MemoryTable)) =>
        /\ IsStepSequence(freq_steps, GraphicsTable, base_graphics)
        /\ IsStepSequence(mem_steps, MemoryTable, base_memory)

C13_StepSequence ==
    /\ []C13_StepsAsTable
    /\ [][InRun => freq_steps' = freq_steps /\ mem_steps' = mem_steps]_vars

\* Two core steps, the first one not zero, and a memory table all above the
\* base memory clock, at the end of a run.
C13_Witness ==
    /\ pc = "returned"
    /\ Len(freq_steps) = 2
    /\ freq_steps[1] < 0
    /\ Len(MemoryTable) >= 1
    /\ mem_steps = << >>

-----------------------------------------------------------------------------
\* The configuration accepted so far: the last Record, or the baseline.
AcceptedAxes ==
    IF records = << >>
    THEN <<default_limit, default_freq_offset, default_mem_offset>>
    ELSE <<records[Len(records)].power_limit, records[Len(records)].freq_offset,
           records[Len(records)].mem_offset>>

CandidateAxes == <<limit, freq, mem>>

(* C14 (as stated) -- One axis at a time: a candidate that has been applied  *)
(* differs from the accepted configuration on exactly one of power limit,    *)
(* core offset and memory offset.                                            *)
C14_OneAxis ==
    pc = "probe" =>
        Cardinality({x \in 1..3 : CandidateAxes[x] # AcceptedAxes[x]}) = 1

(* C14 (amended) -- All axes at once: the candidate of loop index i (counted *)
(* from 0, index 0 included) has power limit baseline - (i + 1) * step_power *)
(* and, in the same write-set, core offset baseline + freq_steps[i], memory  *)
(* offset baseline + mem_steps[i] and locked clocks [0, clock_steps[i]].     *)
C14_AllAxesAtOnce ==
    LET expected ==
            [power_limit |-> default_limit - (i + 1) * step_power,
             freq_offset |-> default_freq_offset + freq_steps[i + 1],
             mem_offset |-> default_mem_offset + mem_steps[i + 1],
             min_clock |-> 0,
             max_clock |-> clock_steps[i + 1]]
    IN  /\ pc \in {"apply", "probe"} =>
             /\ i = Len(records)
             /\ <<limit, freq, mem, max_clock>> =
                    <<expected.power_limit, expected.freq_offset,
                      expected.mem_offset, expected.max_clock>>
        /\ pc = "probe" =>
             /\ AppliedBefore(Len(log) + 1)
             /\ ConfigBefore(Len(log) + 1) = expected

\* The first candidate (index 0) is applied and moves all three axes.
C14_Witness ==
    /\ pc = "probe"
    /\ i = 0
    /\ limit # default_limit
    /\ freq # default_freq_offset
    /\ mem # default_mem_offset

-----------------------------------------------------------------------------
(* C15 (as stated) -- Power-limit floor: the power limit is decremented only *)
(* while it is strictly greater than step_power, so every candidate power    *)
(* limit written to the device is strictly greater than 0 (and the unsigned  *)
(* subtraction does not underflow).                                          *)
C15_PowerFloor ==
    /\ pc = "apply" => limit > 0
    /\ \A k \in 1..Len(log) :
         (log[k].op = "power" /\ log[k].site = "candidate") => log[k].a > 0

-----------------------------------------------------------------------------
\* No candidate is applied or probed after an instability signal.
C16_StopsAfterSignal ==
    \A k \in 1..Len(log) :
        IsUnstable(log[k]) =>
            /\ pc \notin {"loop", "apply", "probe", "save"}
            /\ \A j \in (k + 1)..Len(log) :
                 ~IsProbe(log[j]) /\ ~IsCandidateWrite(log[j])

(* C16 -- Revert and stop on instability: when the probe has signalled       *)
(* instability, the next calls issued are the four baseline writes (power    *)
(* limit, core offset, memory offset, locked clocks [0, baseline.max_clock]) *)
(* issued together, and no candidate is applied or probed afterwards in that *)
(* run.                                                                      *)
C16_RevertAndStop ==
    /\ []C16_StopsAfterSignal
    /\ [][(Len(log) >= 1 /\ IsUnstable(log[Len(log)]) /\ log' # log) =>
              /\ Len(log') = Len(log) + 4
              /\ SubSeq(log', 1, Len(log)) = log
              /\ [j \in 1..4 |-> Issued(log'[Len(log) + j])] = BaselineIssued
              /\ pc' \notin {"loop", "apply", "probe", "save"}]_vars

\* The second candidate was signalled unstable and the revert has been issued.
C16_Witness ==
    /\ pc = "restore"
    /\ Len(records) = 1
    /\ Len(log) = 15
    /\ IsUnstable(log[11])
    /\ \A j \in 12..15 : log[j].site = "revert"

-----------------------------------------------------------------------------
\* Every candidate write asks for a value within the baseline.
C17_CandidatesWithinBaseline ==
    /\ pc \in {"apply", "probe", "save"} =>
         /\ limit <= default_limit
         /\ freq <= default_freq_offset
         /\ mem <= default_mem_offset
         /\ max_clock <= default_clock
    /\ \A k \in 1..Len(log) :
         IsCandidateWrite(log[k]) =>
            /\ log[k].op = "power" => log[k].a <= default_limit
            /\ log[k].op = "gpc" => log[k].a <= default_freq_offset
            /\ log[k].op = "mem" => log[k].a <= default_mem_offset
            /\ log[k].op = "locked" =>
                 log[k].a = 0 /\ log[k].b <= default_clock

(* C17 -- Never above baseline: every candidate written to the device during *)
(* a run has power limit, core offset and memory offset at most the baseline *)
(* values, locked min clock 0 and locked max clock at most the baseline max  *)
(* clock, and the captured baseline is not modified during the run.          *)
C17_NeverAboveBaseline ==
    /\ []C17_CandidatesWithinBaseline
    /\ [][InRun => UNCHANGED baseline]_vars

\* A run that wrote a candidate strictly below the baseline on every axis.
C17_Witness ==
    /\ pc = "returned"
    /\ \E k \in 1..Len(log) :
         /\ AppliedBefore(k)
         /\ ConfigBefore(k).power_limit < default_limit
         /\ ConfigBefore(k).freq_offset < default_freq_offset
         /\ ConfigBefore(k).mem_offset < default_mem_offset
         /\ ConfigBefore(k).max_clock < default_clock

-----------------------------------------------------------------------------
\* running is set exactly while the handler is between its first and last line.
C18_RunningInsideRun ==
    running <=> pc \in {"loop", "apply", "probe", "save", "revert", "restore"}

\* Outside a run, the Records are those of the candidates the most recent run
\* accepted, and of no earlier run.
C18_RecordsOfLastRun ==
    (~running /\ runs >= 1) =>
        LET okp == Positions(IsOkProbe)
        IN  /\ Len(records) = Len(okp)
            /\ \A j \in 1..Len(okp) :
                 ConfigOf(records[j]) = ConfigBefore(okp[j])

(* C18 -- Run bracketing: a run starts only when running is false; it sets   *)
(* running and empties records before the first candidate, and clears        *)
(* running after the final restoration; so whenever running is false after a *)
(* run, records holds only the Records of the most recent run, and two runs  *)
(* never overlap.                                                            *)
C18_RunBracketing ==
    /\ []C18_RunningInsideRun
    /\ []C18_RecordsOfLastRun
    /\ [][runs' # runs =>
              /\ ~running /\ running'
              /\ runs' = runs + 1
              /\ records' = << >> /\ log' = << >>]_vars
    /\ [][(running /\ ~running') =>
              /\ pc = "restore" /\ pc' = "returned"
              /\ BaselineSetAt(Len(log) - 4)']_vars

\* The first run saved a Record, the second run accepted none and is over.
C18_Witness ==
    /\ runs = 2
    /\ ~running
    /\ pc = "returned"
    /\ records = << >>
    /\ Len(RunRows) >= 1

====
